---- MODULE Spec2Model ----
(***************************************************************************)
(* A model of the audio transcription / summarization pipeline of          *)
(* speech_to_text.py (and its Streamlit twin app-host.py).                 *)
(*                                                                         *)
(* Text is a sequence of atoms.  An atom is one character that matters to  *)
(* the JSON codec (quote, backslash, newline, brackets, digits, ...) or a  *)
(* run of ordinary characters kept together ("hello").  The persisted log  *)
(* is the sequence of atoms that json.dump writes, and json.load is a      *)
(* parser over that sequence, so that what is written and what is read     *)
(* back are related by the codec and not by definition.                    *)
(***************************************************************************)
EXTENDS Integers, Sequences, FiniteSets, TLC

(***************************************************************************)
(* Bounds of the model.                                                    *)
(***************************************************************************)
MaxRuns == 2          \* runs of process_audio_file
MaxFullRuns == 1      \* runs in the specification with every duration and outcome
MaxSegments == 2      \* chunks of the longest audio
MaxDuration == 12     \* split_audio on its own: longest audio
MaxChunk == 5         \* split_audio on its own: longest chunk
FlushEvery == 16      \* atoms between two points where a dying write can stop

(***************************************************************************)
(* Characters with a role in the JSON text.                                *)
(***************************************************************************)
QUOTE == "\""
BSLASH == "\\"
NL == "\n"
INDENT == "    "
SPACE == " "
Digits == <<"0", "1", "2", "3", "4", "5", "6", "7", "8", "9">>

Min(a, b) == IF a <= b THEN a ELSE b

(***************************************************************************)
(* Python values, tagged with their type.                                  *)
(***************************************************************************)
PyNone == [t |-> "none", v |-> <<>>]
PyStr(s) == [t |-> "str", v |-> s]
PyInt(n) == [t |-> "int", v |-> n]
PyList(xs) == [t |-> "list", v |-> xs]
PyDict(kvs) == [t |-> "dict", v |-> kvs]

\* d[key] of a dict: the value of the entry with that key.
DictHas(d, key) == \E i \in 1..Len(d.v) : d.v[i][1] = key
DictGet(d, key) == d.v[CHOOSE i \in 1..Len(d.v) : d.v[i][1] = key][2]
\* d[key] = val: replaces the value in place or adds the entry at the end.
DictSet(kvs, key, val) ==
    IF \E i \in 1..Len(kvs) : kvs[i][1] = key
    THEN [i \in 1..Len(kvs) |-> IF kvs[i][1] = key THEN <<key, val>> ELSE kvs[i]]
    ELSE Append(kvs, <<key, val>>)

(***************************************************************************)
(* json.dump(data, file, indent=4, ensure_ascii=False)                     *)
(***************************************************************************)
RECURSIVE EscapeStr(_)
EscapeStr(s) ==
    IF s = <<>> THEN <<>>
    ELSE LET c == Head(s)
             e == IF c = QUOTE THEN <<BSLASH, QUOTE>>
                  ELSE IF c = BSLASH THEN <<BSLASH, BSLASH>>
                  ELSE IF c = NL THEN <<BSLASH, "n">>
                  ELSE <<c>>
         IN  e \o EscapeStr(Tail(s))

EncodeStr(s) == <<QUOTE>> \o EscapeStr(s) \o <<QUOTE>>

RECURSIVE EncodeNat(_)
EncodeNat(n) ==
    IF n < 10 THEN <<Digits[n + 1]>>
    ELSE EncodeNat(n \div 10) \o <<Digits[(n % 10) + 1]>>

EncodeInt(n) == IF n < 0 THEN <<"-">> \o EncodeNat(0 - n) ELSE EncodeNat(n)

\* The line break and indentation json.dump puts before an item at `level`.
NewlineIndent(level) == <<NL>> \o [i \in 1..level |-> INDENT]

RECURSIVE JsonEncode(_, _)
RECURSIVE EncodeItems(_, _, _)
EncodeItems(xs, level, i) ==
    IF i > Len(xs) THEN <<>>
    ELSE NewlineIndent(level) \o JsonEncode(xs[i], level)
         \o (IF i < Len(xs) THEN <<",">> ELSE <<>>)
         \o EncodeItems(xs, level, i + 1)

RECURSIVE EncodePairs(_, _, _)
EncodePairs(kvs, level, i) ==
    IF i > Len(kvs) THEN <<>>
    ELSE NewlineIndent(level) \o EncodeStr(kvs[i][1]) \o <<":", SPACE>>
         \o JsonEncode(kvs[i][2], level)
         \o (IF i < Len(kvs) THEN <<",">> ELSE <<>>)
         \o EncodePairs(kvs, level, i + 1)

JsonEncode(val, level) ==
    CASE val.t = "none" -> <<"null">>
      [] val.t = "str" -> EncodeStr(val.v)
      [] val.t = "int" -> EncodeInt(val.v)
      [] val.t = "list" ->
            IF val.v = <<>> THEN <<"[", "]">>
            ELSE <<"[">> \o EncodeItems(val.v, level + 1, 1)
                 \o NewlineIndent(level) \o <<"]">>
      [] val.t = "dict" ->
            IF val.v = <<>> THEN <<"{", "}">>
            ELSE <<"{">> \o EncodePairs(val.v, level + 1, 1)
                 \o NewlineIndent(level) \o <<"}">>

JsonDump(data) == JsonEncode(data, 0)

(***************************************************************************)
(* json.load(file): a parse result is [ok, val, pos]; ok = FALSE stands    *)
(* for json.JSONDecodeError.                                               *)
(***************************************************************************)
ParseFail == [ok |-> FALSE, val |-> PyNone, pos |-> 0]
ParseOk(val, pos) == [ok |-> TRUE, val |-> val, pos |-> pos]

IsWs(c) == c \in {SPACE, NL, INDENT}
IsDigit(c) == \E d \in 1..10 : Digits[d] = c
DigitVal(c) == (CHOOSE d \in 1..10 : Digits[d] = c) - 1

RECURSIVE SkipWs(_, _)
SkipWs(doc, i) ==
    IF i <= Len(doc) /\ IsWs(doc[i]) THEN SkipWs(doc, i + 1) ELSE i

\* The body of a string, from just after its opening quote.
RECURSIVE ScanString(_, _, _)
ScanString(doc, i, acc) ==
    IF i > Len(doc) THEN ParseFail
    ELSE IF doc[i] = QUOTE THEN ParseOk(PyStr(acc), i + 1)
    ELSE IF doc[i] = BSLASH THEN
        IF i + 1 > Len(doc) THEN ParseFail
        ELSE IF doc[i + 1] \in {QUOTE, BSLASH}
             THEN ScanString(doc, i + 2, Append(acc, doc[i + 1]))
        ELSE IF doc[i + 1] = "n" THEN ScanString(doc, i + 2, Append(acc, NL))
        ELSE ParseFail
    ELSE IF doc[i] = NL THEN ParseFail
    ELSE ScanString(doc, i + 1, Append(acc, doc[i]))

RECURSIVE ScanDigits(_, _, _)
ScanDigits(doc, i, acc) ==
    IF i <= Len(doc) /\ IsDigit(doc[i])
    THEN ScanDigits(doc, i + 1, acc * 10 + DigitVal(doc[i]))
    ELSE ParseOk(PyInt(acc), i)

\* An integer: 0, or a non-zero digit followed by digits, with an optional sign.
ScanNumber(doc, i) ==
    LET neg == doc[i] = "-"
        j == IF neg THEN i + 1 ELSE i
    IN  IF j > Len(doc) \/ ~IsDigit(doc[j]) THEN ParseFail
        ELSE LET r == IF doc[j] = "0" THEN ParseOk(PyInt(0), j + 1)
                      ELSE ScanDigits(doc, j, 0)
             IN  IF neg THEN ParseOk(PyInt(0 - r.val.v), r.pos) ELSE r

RECURSIVE ParseValue(_, _)
RECURSIVE ParseArray(_, _, _)
RECURSIVE ParseObject(_, _, _)

\* The items of an array, from the first item on.
ParseArray(doc, i, acc) ==
    LET item == ParseValue(doc, i)
    IN  IF ~item.ok THEN ParseFail
        ELSE LET j == SkipWs(doc, item.pos)
                 xs == Append(acc, item.val)
             IN  IF j > Len(doc) THEN ParseFail
                 ELSE IF doc[j] = "]" THEN ParseOk(PyList(xs), j + 1)
                 ELSE IF doc[j] = "," THEN ParseArray(doc, SkipWs(doc, j + 1), xs)
                 ELSE ParseFail

\* The pairs of an object, from the opening quote of the first key on.
ParseObject(doc, i, acc) ==
    IF i > Len(doc) \/ doc[i] # QUOTE THEN ParseFail
    ELSE LET key == ScanString(doc, i + 1, <<>>)
         IN  IF ~key.ok THEN ParseFail
             ELSE LET c == SkipWs(doc, key.pos)
                  IN  IF c > Len(doc) \/ doc[c] # ":" THEN ParseFail
                      ELSE LET item == ParseValue(doc, SkipWs(doc, c + 1))
                           IN  IF ~item.ok THEN ParseFail
                               ELSE LET j == SkipWs(doc, item.pos)
                                        kvs == DictSet(acc, key.val.v, item.val)
                                    IN  IF j > Len(doc) THEN ParseFail
                                        ELSE IF doc[j] = "}"
                                             THEN ParseOk(PyDict(kvs), j + 1)
                                        ELSE IF doc[j] = ","
                                             THEN ParseObject(doc, SkipWs(doc, j + 1), kvs)
                                        ELSE ParseFail

ParseValue(doc, i) ==
    IF i > Len(doc) THEN ParseFail
    ELSE IF doc[i] = QUOTE THEN ScanString(doc, i + 1, <<>>)
    ELSE IF doc[i] = "null" THEN ParseOk(PyNone, i + 1)
    ELSE IF doc[i] = "-" \/ IsDigit(doc[i]) THEN ScanNumber(doc, i)
    ELSE IF doc[i] = "[" THEN
        LET j == SkipWs(doc, i + 1)
        IN  IF j <= Len(doc) /\ doc[j] = "]" THEN ParseOk(PyList(<<>>), j + 1)
            ELSE ParseArray(doc, j, <<>>)
    ELSE IF doc[i] = "{" THEN
        LET j == SkipWs(doc, i + 1)
        IN  IF j <= Len(doc) /\ doc[j] = "}" THEN ParseOk(PyDict(<<>>), j + 1)
            ELSE ParseObject(doc, j, <<>>)
    ELSE ParseFail

\* The whole document is one value, with nothing but white space around it.
JsonLoad(doc) ==
    LET r == ParseValue(doc, SkipWs(doc, 1))
    IN  IF r.ok /\ SkipWs(doc, r.pos) > Len(doc) THEN r ELSE ParseFail

(***************************************************************************)
(* Program constants and the strings the program builds.                   *)
(***************************************************************************)
ChunkDurationMs == 600000

ErrorChunkPrefix == "[Error transcribing chunk: "
ErrorChunkSuffix == "]"
ErrorSummaryPrefix == "Error generating summary: "

K(name) == <<name>>

\* os.path.basename(path): what follows the last separator.
RECURSIVE Basename(_)
Basename(path) ==
    IF \E i \in 1..Len(path) : path[i] = "/"
    THEN Basename(SubSeq(path, (CHOOSE i \in 1..Len(path) : path[i] = "/") + 1, Len(path)))
    ELSE path

\* audio[start:end] of pydub: both ends clamped to the length of the audio.
Slice(duration, start, end) == <<Min(start, duration), Min(end, duration)>>

\* split_audio with the chunk count rounded down: the tail of the audio is lost.
SplitAudio_RoundedDown(duration, chunk_duration_ms) ==
    LET num_chunks == duration \div chunk_duration_ms
    IN  [i \in 1..num_chunks |->
            Slice(duration, (i - 1) * chunk_duration_ms,
                  Min(i * chunk_duration_ms, duration))]

\* split_audio after decoding: the [start, end) range of every chunk.
SplitAudio(duration, chunk_duration_ms) ==
    LET num_chunks == (duration + chunk_duration_ms - 1) \div chunk_duration_ms
    IN  [i \in 1..num_chunks |->
            Slice(duration, (i - 1) * chunk_duration_ms,
                  Min(i * chunk_duration_ms, duration))]

\* The entry process_audio_file appends for chunk i.
ChunkEntry(i, text) ==
    PyDict(<< <<K("chunk_index"), PyInt(i)>>, <<K("text"), PyStr(text)>> >>)

\* f"[Error transcribing chunk: {str(e)}]"
ErrorChunkText(cause) == <<ErrorChunkPrefix>> \o cause \o <<ErrorChunkSuffix>>

\* f"Error generating summary: {str(e)}"
ErrorSummaryText(cause) == <<ErrorSummaryPrefix>> \o cause

\* "".join(...): the texts run into one another.
RECURSIVE JoinTexts_NoSeparator(_, _)
JoinTexts_NoSeparator(entries, i) ==
    IF i > Len(entries) THEN <<>>
    ELSE DictGet(entries[i], K("text")).v \o JoinTexts_NoSeparator(entries, i + 1)

\* " ".join(chunk["text"] for chunk in transcriptions)
RECURSIVE JoinTexts(_, _)
JoinTexts(entries, i) ==
    IF i > Len(entries) THEN <<>>
    ELSE DictGet(entries[i], K("text")).v
         \o (IF i < Len(entries) THEN <<SPACE>> ELSE <<>>)
         \o JoinTexts(entries, i + 1)

\* The dict process_audio_file appends to the loaded log.
RecordOf(path, full_text, entries, summ) ==
    PyDict(<< <<K("file"), PyStr(Basename(path))>>,
              <<K("full_text"), PyStr(full_text)>>,
              <<K("chunks"), PyList(entries)>>,
              <<K("summary"), PyStr(summ)>> >>)

\* read_transcriptions() that never returns what it parsed.
ReadTranscriptions_AlwaysEmpty(file) == PyList(<<>>)

\* read_transcriptions(): the file's content when it parses, [] otherwise.
ReadTranscriptions(file) ==
    IF file.exists
    THEN LET r == JsonLoad(file.content)
         IN  IF r.ok THEN r.val ELSE PyList(<<>>)
    ELSE PyList(<<>>)

(***************************************************************************)
(* State.                                                                  *)
(***************************************************************************)
Runs == 1..MaxRuns

VARIABLES
    pc,                  \* where each run of process_audio_file is
    audio_path,          \* its argument
    chunks,              \* the ranges split_audio returned
    transcriptions,      \* the per-chunk entries collected so far
    combined_text,
    summary,
    transcriptions_data, \* what read_transcriptions returned, then with the record
    logFile,             \* transcriptions.json: [exists, content]
    raised,              \* the exception that ended the run, "" when none
    trace,               \* history: the external calls each run made, in order
    appended,            \* history: the record each run appended in memory
    order,               \* history: the runs whose write completed, in order
    logAtStart,          \* history: the log when the run started
    logAtRead,           \* history: the log when the run read it
    logAtOpen,           \* history: the log when the run opened it for writing
    logAtExit,           \* history: the log as the run left it, done or dead
    overlapped,          \* history: another run was between its read and its write
    splitD, splitC, splitOut, splitDone   \* split_audio on its own

pipeVars == <<pc, audio_path, chunks, transcriptions, combined_text, summary,
              transcriptions_data, logFile, raised, trace, appended, order,
              logAtStart, logAtRead, logAtOpen, logAtExit, overlapped>>
splitVars == <<splitD, splitC, splitOut, splitDone>>
vars == <<pipeVars, splitVars>>

AbsentLog == [exists |-> FALSE, content |-> <<>>]
Event(op, idx, ok, info) == [op |-> op, idx |-> idx, ok |-> ok, info |-> info]

Finished(r) == pc[r] \in {"done", "aborted", "crashed"}

\* What a remote call can do: return one of `values`, or raise with one of `causes`.
Outcomes(values, causes) ==
    {[ok |-> TRUE, v |-> x] : x \in values} \cup {[ok |-> FALSE, v |-> c] : c \in causes}

PipeInit ==
    /\ pc = [r \in Runs |-> "idle"]
    /\ audio_path = [r \in Runs |-> <<>>]
    /\ chunks = [r \in Runs |-> <<>>]
    /\ transcriptions = [r \in Runs |-> <<>>]
    /\ combined_text = [r \in Runs |-> <<>>]
    /\ summary = [r \in Runs |-> <<>>]
    /\ transcriptions_data = [r \in Runs |-> PyNone]
    /\ logFile = AbsentLog
    /\ raised = [r \in Runs |-> ""]
    /\ trace = [r \in Runs |-> <<>>]
    /\ appended = [r \in Runs |-> PyNone]
    /\ order = <<>>
    /\ logAtStart = [r \in Runs |-> AbsentLog]
    /\ logAtRead = [r \in Runs |-> AbsentLog]
    /\ logAtOpen = [r \in Runs |-> AbsentLog]
    /\ logAtExit = [r \in Runs |-> AbsentLog]
    /\ overlapped = FALSE

SplitIdle ==
    /\ splitD = 0
    /\ splitC = 1
    /\ splitOut = <<>>
    /\ splitDone = FALSE

Init == PipeInit /\ SplitIdle

\* The function returns or raises: its locals are gone.
Locals == <<audio_path, chunks, transcriptions, combined_text, summary, transcriptions_data>>
DropLocals(r) ==
    /\ audio_path' = [audio_path EXCEPT ![r] = <<>>]
    /\ chunks' = [chunks EXCEPT ![r] = <<>>]
    /\ transcriptions' = [transcriptions EXCEPT ![r] = <<>>]
    /\ combined_text' = [combined_text EXCEPT ![r] = <<>>]
    /\ summary' = [summary EXCEPT ![r] = <<>>]
    /\ transcriptions_data' = [transcriptions_data EXCEPT ![r] = PyNone]

Raise(r, exc) ==
    /\ pc' = [pc EXCEPT ![r] = "aborted"]
    /\ raised' = [raised EXCEPT ![r] = exc]
    /\ DropLocals(r)

Log(r, ev) == trace' = [trace EXCEPT ![r] = Append(@, ev)]

Histories == <<appended, order, logAtStart, logAtRead, logAtOpen, logAtExit, overlapped>>

(***************************************************************************)
(* process_audio_file, one step per blocking point.                        *)
(***************************************************************************)
\* The call, and the check that the file exists.
Start(r, paths, sequential, limit) ==
    /\ pc[r] = "idle"
    /\ r <= limit
    /\ sequential => \A q \in Runs : q < r => Finished(q)
    /\ \E path \in paths, exists \in BOOLEAN :
        /\ Log(r, Event("call", 0, exists, path))
        /\ logAtStart' = [logAtStart EXCEPT ![r] = logFile]
        /\ IF exists
           THEN /\ pc' = [pc EXCEPT ![r] = "split"]
                /\ audio_path' = [audio_path EXCEPT ![r] = path]
                /\ UNCHANGED <<chunks, transcriptions, combined_text, summary,
                               transcriptions_data, raised>>
           ELSE Raise(r, "FileNotFoundError")
    /\ UNCHANGED <<logFile, appended, order, logAtRead, logAtOpen, logAtExit,
                   overlapped, splitVars>>

\* split_audio that swallows the decoding error and returns no chunks.
Split_SwallowsDecodeError(r, durations) ==
    /\ pc[r] = "split"
    /\ \E decoded \in BOOLEAN, duration \in durations :
        /\ Log(r, Event("decode", 0, decoded, <<>>))
        /\ chunks' = [chunks EXCEPT ![r] =
                IF decoded THEN SplitAudio(duration, ChunkDurationMs) ELSE <<>>]
        /\ pc' = [pc EXCEPT ![r] =
                IF chunks'[r] = <<>> THEN "aggregate" ELSE "transcribe"]
    /\ UNCHANGED <<audio_path, transcriptions, combined_text, summary,
                   transcriptions_data, raised, logFile, Histories, splitVars>>

\* split_audio(audio_path): decoding fails, or the audio has some duration.
Split(r, durations) ==
    /\ pc[r] = "split"
    /\ \E decoded \in BOOLEAN, duration \in durations :
        /\ Log(r, Event("decode", 0, decoded, <<>>))
        /\ IF decoded
           THEN /\ chunks' = [chunks EXCEPT ![r] = SplitAudio(duration, ChunkDurationMs)]
                /\ pc' = [pc EXCEPT ![r] =
                            IF chunks'[r] = <<>> THEN "aggregate" ELSE "transcribe"]
                /\ UNCHANGED <<audio_path, transcriptions, combined_text, summary,
                               transcriptions_data, raised>>
           ELSE Raise(r, "CouldntDecodeError")
    /\ UNCHANGED <<logFile, Histories, splitVars>>

\* The loop without its try/except: a failing chunk ends the run.
Transcribe_FailureEscapes(r, texts, causes) ==
    /\ pc[r] = "transcribe"
    /\ LET i == Len(transcriptions[r])
       IN  /\ i < Len(chunks[r])
           /\ \E o \in Outcomes(texts, causes) :
                /\ Log(r, Event("transcribe", i, o.ok, o.v))
                /\ IF o.ok
                   THEN /\ transcriptions' = [transcriptions EXCEPT ![r] =
                                Append(@, ChunkEntry(i, o.v))]
                        /\ pc' = [pc EXCEPT ![r] =
                                IF i + 1 = Len(chunks[r]) THEN "aggregate" ELSE "transcribe"]
                        /\ UNCHANGED <<audio_path, chunks, combined_text, summary,
                                       transcriptions_data, raised>>
                   ELSE Raise(r, "APIError")
    /\ UNCHANGED <<logFile, Histories, splitVars>>

\* The loop with a retry: a failing chunk is sent again.
Transcribe_RetriesFailure(r, texts, causes) ==
    /\ pc[r] = "transcribe"
    /\ LET i == Len(transcriptions[r])
       IN  /\ i < Len(chunks[r])
           /\ Len(trace[r]) < 2 * MaxSegments + 4
           /\ \E o \in Outcomes(texts, causes) :
                /\ Log(r, Event("transcribe", i, o.ok, o.v))
                /\ transcriptions' = [transcriptions EXCEPT ![r] =
                        IF o.ok THEN Append(@, ChunkEntry(i, o.v)) ELSE @]
                /\ pc' = [pc EXCEPT ![r] =
                        IF o.ok /\ i + 1 = Len(chunks[r]) THEN "aggregate" ELSE "transcribe"]
    /\ UNCHANGED <<audio_path, chunks, combined_text, summary, transcriptions_data,
                   logFile, raised, Histories, splitVars>>

\* One iteration of the loop: transcribe_chunk(chunk, i) returns a text or raises.
Transcribe(r, texts, causes) ==
    /\ pc[r] = "transcribe"
    /\ LET i == Len(transcriptions[r])
       IN  /\ i < Len(chunks[r])
           /\ \E o \in Outcomes(texts, causes) :
                /\ Log(r, Event("transcribe", i, o.ok, o.v))
                /\ transcriptions' = [transcriptions EXCEPT ![r] =
                        Append(@, ChunkEntry(i, IF o.ok THEN o.v ELSE ErrorChunkText(o.v)))]
           /\ pc' = [pc EXCEPT ![r] =
                        IF i + 1 = Len(chunks[r]) THEN "aggregate" ELSE "transcribe"]
    /\ UNCHANGED <<audio_path, chunks, combined_text, summary, transcriptions_data,
                   logFile, raised, Histories, splitVars>>

\* combined_text = " ".join(...)
Aggregate(r) ==
    /\ pc[r] = "aggregate"
    /\ combined_text' = [combined_text EXCEPT ![r] = JoinTexts(transcriptions[r], 1)]
    /\ Log(r, Event("aggregate", 0, TRUE, <<>>))
    /\ pc' = [pc EXCEPT ![r] = "summarize"]
    /\ UNCHANGED <<audio_path, chunks, transcriptions, summary, transcriptions_data,
                   logFile, raised, Histories, splitVars>>

\* summarize_transcript without its try/except: the failure ends the run.
Summarize_FailureEscapes(r, summaries, causes) ==
    /\ pc[r] = "summarize"
    /\ \E o \in Outcomes(summaries, causes) :
        /\ Log(r, Event("summarize", 0, o.ok, o.v))
        /\ IF o.ok
           THEN /\ summary' = [summary EXCEPT ![r] = o.v]
                /\ pc' = [pc EXCEPT ![r] = "read"]
                /\ UNCHANGED <<audio_path, chunks, transcriptions, combined_text,
                               transcriptions_data, raised>>
           ELSE Raise(r, "APIError")
    /\ UNCHANGED <<logFile, Histories, splitVars>>

\* summary = summarize_transcript(combined_text): the reply, or the error text.
Summarize(r, summaries, causes) ==
    /\ pc[r] = "summarize"
    /\ \E o \in Outcomes(summaries, causes) :
        /\ Log(r, Event("summarize", 0, o.ok, o.v))
        /\ summary' = [summary EXCEPT ![r] = IF o.ok THEN o.v ELSE ErrorSummaryText(o.v)]
    /\ pc' = [pc EXCEPT ![r] = "read"]
    /\ UNCHANGED <<audio_path, chunks, transcriptions, combined_text,
                   transcriptions_data, logFile, raised, Histories, splitVars>>

InReadWriteWindow(q) == pc[q] \in {"append", "open", "dump"}

\* transcriptions_data = read_transcriptions()
Read(r) ==
    /\ pc[r] = "read"
    /\ transcriptions_data' = [transcriptions_data EXCEPT ![r] = ReadTranscriptions(logFile)]
    /\ Log(r, Event("read", 0, TRUE, <<>>))
    /\ logAtRead' = [logAtRead EXCEPT ![r] = logFile]
    /\ overlapped' = (overlapped \/ \E q \in Runs \ {r} : InReadWriteWindow(q))
    /\ pc' = [pc EXCEPT ![r] = "append"]
    /\ UNCHANGED <<audio_path, chunks, transcriptions, combined_text, summary,
                   logFile, raised, appended, order, logAtStart, logAtOpen, logAtExit,
                   splitVars>>

\* transcriptions_data.append({...}): only a list has append.
AppendRecord(r) ==
    /\ pc[r] = "append"
    /\ LET rec == RecordOf(audio_path[r], combined_text[r], transcriptions[r], summary[r])
       IN  IF transcriptions_data[r].t = "list"
           THEN /\ transcriptions_data' = [transcriptions_data EXCEPT ![r] =
                        PyList(Append(@.v, rec))]
                /\ appended' = [appended EXCEPT ![r] = rec]
                /\ pc' = [pc EXCEPT ![r] = "open"]
                /\ UNCHANGED <<audio_path, chunks, transcriptions, combined_text,
                               summary, raised>>
           ELSE /\ Raise(r, "AttributeError")
                /\ UNCHANGED appended
    /\ UNCHANGED <<logFile, trace, order, logAtStart, logAtRead, logAtOpen,
                   logAtExit, overlapped, splitVars>>

\* write_transcriptions: open(JSON_FILE, "w") creates or truncates the file.
WriteOpen(r) ==
    /\ pc[r] = "open"
    /\ logAtOpen' = [logAtOpen EXCEPT ![r] = logFile]
    /\ logFile' = [exists |-> TRUE, content |-> <<>>]
    /\ Log(r, Event("write", 0, TRUE, <<>>))
    /\ pc' = [pc EXCEPT ![r] = "dump"]
    /\ UNCHANGED <<Locals, raised, appended, order, logAtStart, logAtRead,
                   logAtExit, overlapped, splitVars>>

\* A write of the new record alone instead of the whole list.
WriteDump_OnlyNewRecord(r) ==
    /\ pc[r] = "dump"
    /\ logFile' = [exists |-> TRUE, content |-> JsonDump(PyList(<<appended[r]>>))]
    /\ logAtExit' = [logAtExit EXCEPT ![r] = logFile']
    /\ order' = Append(order, r)
    /\ pc' = [pc EXCEPT ![r] = "done"]
    /\ DropLocals(r)
    /\ UNCHANGED <<raised, trace, appended, logAtStart, logAtRead, logAtOpen,
                   overlapped, splitVars>>

\* write_transcriptions: json.dump and the close that flushes it; the function returns.
WriteDump(r) ==
    /\ pc[r] = "dump"
    /\ logFile' = [exists |-> TRUE, content |-> JsonDump(transcriptions_data[r])]
    /\ logAtExit' = [logAtExit EXCEPT ![r] = logFile']
    /\ order' = Append(order, r)
    /\ pc' = [pc EXCEPT ![r] = "done"]
    /\ DropLocals(r)
    /\ UNCHANGED <<raised, trace, appended, logAtStart, logAtRead, logAtOpen,
                   overlapped, splitVars>>

(***************************************************************************)
(* Faults of the environment.                                              *)
(***************************************************************************)
\* The process dies, or the disk fails, while json.dump is writing: what has
\* been flushed so far, a proper prefix of the document, stays in the file.
CrashInWrite(r) ==
    /\ pc[r] = "dump"
    /\ LET doc == JsonDump(transcriptions_data[r])
       IN  \E k \in {j \in 0..(Len(doc) - 1) : j % FlushEvery = 0} :
              /\ logFile' = [exists |-> TRUE, content |-> SubSeq(doc, 1, k)]
              /\ logAtExit' = [logAtExit EXCEPT ![r] = logFile']
    /\ pc' = [pc EXCEPT ![r] = "crashed"]
    /\ DropLocals(r)
    /\ UNCHANGED <<raised, trace, appended, order, logAtStart, logAtRead, logAtOpen,
                   overlapped, splitVars>>

\* Something else than this program rewrites transcriptions.json between two runs.
CorruptLog(contents) ==
    /\ \A r \in Runs : pc[r] = "idle" \/ Finished(r)
    /\ \E c \in contents : logFile' = [exists |-> TRUE, content |-> c]
    /\ UNCHANGED <<pc, Locals, raised, trace, Histories, splitVars>>

(***************************************************************************)
(* split_audio on its own, for any duration and chunk size.                *)
(***************************************************************************)
RunSplit ==
    /\ ~splitDone
    /\ splitOut' = SplitAudio(splitD, splitC)
    /\ splitDone' = TRUE
    /\ UNCHANGED <<splitD, splitC, pipeVars>>

(***************************************************************************)
(* Inputs.                                                                 *)
(***************************************************************************)
Paths == {<<"recordings", "/", "meeting.m4a">>}
PathOf(r) == <<"recordings", "/", "meeting", Digits[r + 1], ".m4a">>
Durations ==
    {d \in {0, 1} \cup UNION {{k * ChunkDurationMs - 1, k * ChunkDurationMs,
                                k * ChunkDurationMs + 1} : k \in 1..MaxSegments} :
        d <= MaxSegments * ChunkDurationMs}
ShortDurations == {ChunkDurationMs, ChunkDurationMs + 1}
OneChunk == {ChunkDurationMs - 1}
Texts == {<<"hello", QUOTE, "world", QUOTE>>}
TextsOrSilence == Texts \cup {<<>>}
Causes == {<<"timeout", BSLASH, "n">>}
Summaries == {<<"Key points:", NL, "none">>}
CorruptContents ==
    { <<"not json">>, <<"{", "}">>, <<"null">>, <<"[", "7", "]">>,
      <<"[", "{", "}", ",">> }

(***************************************************************************)
(* Specifications.                                                         *)
(***************************************************************************)
\* One run after the other, every duration and every outcome of the services.
RunStep(r) ==
    \/ Start(r, Paths, TRUE, MaxFullRuns)
    \/ Split(r, Durations)
    \/ Transcribe(r, TextsOrSilence, Causes)
    \/ Aggregate(r)
    \/ Summarize(r, Summaries, Causes)
    \/ Read(r)
    \/ AppendRecord(r)
    \/ WriteOpen(r)
    \/ WriteDump(r)

Next == \E r \in Runs : RunStep(r)

Spec == Init /\ [][Next]_vars

\* One run after the other on the same log, short recordings.
LogStep(r) ==
    \/ Start(r, {PathOf(r)}, TRUE, MaxRuns)
    \/ Split(r, ShortDurations)
    \/ Transcribe(r, Texts, Causes)
    \/ Aggregate(r)
    \/ Summarize(r, Summaries, Causes)
    \/ Read(r)
    \/ AppendRecord(r)
    \/ WriteOpen(r)
    \/ WriteDump(r)

NextLog == \E r \in Runs : LogStep(r)

SpecLog == Init /\ [][NextLog]_vars

\* The same with a write that can die part-way and a log that can be damaged.
FaultStep(r) ==
    \/ Start(r, {PathOf(r)}, TRUE, MaxRuns)
    \/ Split(r, OneChunk)
    \/ Transcribe(r, Texts, Causes)
    \/ Aggregate(r)
    \/ Summarize(r, Summaries, Causes)
    \/ Read(r)
    \/ AppendRecord(r)
    \/ WriteOpen(r)
    \/ WriteDump(r)
    \/ CrashInWrite(r)

NextFault == (\E r \in Runs : FaultStep(r)) \/ CorruptLog(CorruptContents)

SpecFault == Init /\ [][NextFault]_vars

\* Runs started without waiting for one another, as from two processes; the
\* remote services answer.
ConcStep(r) ==
    \/ Start(r, {PathOf(r)}, FALSE, MaxRuns)
    \/ Split(r, OneChunk)
    \/ Transcribe(r, Texts, {})
    \/ Aggregate(r)
    \/ Summarize(r, Summaries, {})
    \/ Read(r)
    \/ AppendRecord(r)
    \/ WriteOpen(r)
    \/ WriteDump(r)

NextConc == \E r \in Runs : ConcStep(r)

SpecConc == Init /\ [][NextConc]_vars

\* split_audio applied to every duration and chunk size within the bounds.
InitSplit ==
    /\ PipeInit
    /\ splitD \in 0..MaxDuration
    /\ splitC \in 1..MaxChunk
    /\ splitOut = <<>>
    /\ splitDone = FALSE

NextSplit == RunSplit

SpecSplit == InitSplit /\ [][NextSplit]_vars

(***************************************************************************)
(* Vocabulary of the properties below.                                     *)
(***************************************************************************)
OpsOf(r) == [k \in 1..Len(trace[r]) |-> trace[r][k].op]
TranscribeEvents(r) == SelectSeq(trace[r], LAMBDA e : e.op = "transcribe")
Did(r, op) == \E k \in 1..Len(trace[r]) : trace[r][k].op = op
Failed(r, op) == \E k \in 1..Len(trace[r]) : trace[r][k].op = op /\ ~trace[r][k].ok
CauseOf(r, op) ==
    trace[r][CHOOSE k \in 1..Len(trace[r]) : trace[r][k].op = op /\ ~trace[r][k].ok].info
AfterLoop(r) == pc[r] \in {"aggregate", "summarize", "read", "append", "open", "dump"}
AfterAggregate(r) == pc[r] \in {"summarize", "read", "append", "open", "dump"}
IsPrefix(a, b) == Len(a) <= Len(b) /\ \A k \in 1..Len(a) : a[k] = b[k]
ExpectedOps(n) ==
    <<"call", "decode">> \o [i \in 1..n |-> "transcribe"]
    \o <<"aggregate", "summarize", "read", "write">>
PositionIn(seq, r) == CHOOSE k \in 1..Len(seq) : seq[k] = r
TextOf(entry) == DictGet(entry, K("text")).v
\* Where the text of entry i starts in the joined transcript, counted from 0.
RECURSIVE OffsetOf(_, _)
OffsetOf(entries, i) ==
    IF i = 1 THEN 0
    ELSE OffsetOf(entries, i - 1) + Len(TextOf(entries[i - 1])) + 1
RecordKeys == {K("file"), K("full_text"), K("chunks"), K("summary")}
IsRecord(v) == v.t = "dict" /\ \A key \in RecordKeys : DictHas(v, key)
IsRecordArray(file) ==
    LET p == JsonLoad(file.content)
    IN  p.ok /\ p.val.t = "list" /\ \A i \in 1..Len(p.val.v) : IsRecord(p.val.v[i])
RecordsInOrder == [k \in 1..Len(order) |-> appended[order[k]]]
NoWriteInProgress == \A r \in Runs : pc[r] # "dump"

(***************************************************************************)
(* C1: for every duration D >= 0 and chunk size C > 0, split_audio returns *)
(* ceil(D / C) segments (none when D = 0); segment i is                    *)
(* [i*C, min((i+1)*C, D)); every instant of [0, D) lies in exactly one     *)
(* segment; no segment is longer than C and only the last may be shorter.  *)
(***************************************************************************)
C1_SplitCoversAudio ==
    splitDone =>
        LET n == Len(splitOut)
        IN  /\ n * splitC >= splitD
            /\ n > 0 => (n - 1) * splitC < splitD
            /\ splitD = 0 => n = 0
            /\ \A i \in 1..n :
                /\ splitOut[i] = <<(i - 1) * splitC, Min(i * splitC, splitD)>>
                /\ splitOut[i][1] < splitOut[i][2]
                /\ splitOut[i][2] - splitOut[i][1] <= splitC
                /\ i < n => splitOut[i][2] - splitOut[i][1] = splitC
            /\ \A t \in 0..(splitD - 1) :
                Cardinality({i \in 1..n : splitOut[i][1] <= t /\ t < splitOut[i][2]}) = 1
            /\ \A i \in 1..n : splitOut[i][1] >= 0 /\ splitOut[i][2] <= splitD

C1_Witness ==
    /\ splitDone
    /\ Len(splitOut) = 3
    /\ splitOut[3][2] - splitOut[3][1] < splitC

(***************************************************************************)
(* C2: a transcribe_chunk failure for segment i does not end the run: the  *)
(* entry for i holds "[Error transcribing chunk: <cause>]" with the cause  *)
(* of the failure, and every later segment is still transcribed, whatever  *)
(* the set of failing segments.                                            *)
(***************************************************************************)
C2_SegmentFailureContained ==
    \A r \in Runs :
        LET evs == TranscribeEvents(r)
        IN  /\ Failed(r, "transcribe") => pc[r] # "aborted" /\ raised[r] = ""
            /\ pc[r] = "transcribe" =>
                    Len(evs) = Len(transcriptions[r]) /\ Len(evs) < Len(chunks[r])
            /\ AfterLoop(r) =>
                /\ Len(evs) = Len(chunks[r])
                /\ Len(transcriptions[r]) = Len(chunks[r])
                /\ \A k \in 1..Len(evs) :
                    /\ evs[k].idx = k - 1
                    /\ ~evs[k].ok =>
                        transcriptions[r][k] =
                            PyDict(<< <<K("chunk_index"), PyInt(k - 1)>>,
                                      <<K("text"), PyStr(<<"[Error transcribing chunk: ">>
                                                         \o evs[k].info \o <<"]">>)>> >>)
            /\ pc[r] = "done" =>
                /\ Len(DictGet(appended[r], K("chunks")).v) = Len(evs)
                /\ \A k \in 1..Len(evs) :
                    ~evs[k].ok =>
                        TextOf(DictGet(appended[r], K("chunks")).v[k]) =
                            <<"[Error transcribing chunk: ">> \o evs[k].info \o <<"]">>

C2_Witness ==
    \E r \in Runs :
        /\ pc[r] = "aggregate"
        /\ Len(TranscribeEvents(r)) = 2
        /\ ~TranscribeEvents(r)[1].ok
        /\ TranscribeEvents(r)[2].ok

(***************************************************************************)
(* C3: once a run has aggregated, there is one entry per segment, entry i  *)
(* has chunk_index i, and full_text is the entries' texts in index order   *)
(* with one space between neighbours, a failed segment standing with its   *)
(* placeholder; with no segment full_text is empty.                        *)
(***************************************************************************)
C3_AggregationInIndexOrder ==
    \A r \in Runs :
        AfterAggregate(r) =>
            LET es == transcriptions[r]
                n == Len(chunks[r])
                evs == TranscribeEvents(r)
                c == combined_text[r]
            IN  /\ Len(es) = n
                /\ Len(evs) = n
                /\ n = 0 => c = <<>>
                /\ n > 0 => Len(c) = OffsetOf(es, n) + Len(TextOf(es[n]))
                /\ \A i \in 1..n :
                    /\ DictGet(es[i], K("chunk_index")) = PyInt(i - 1)
                    /\ TextOf(es[i]) =
                        IF evs[i].ok THEN evs[i].info
                        ELSE <<"[Error transcribing chunk: ">> \o evs[i].info \o <<"]">>
                    /\ SubSeq(c, OffsetOf(es, i) + 1, OffsetOf(es, i) + Len(TextOf(es[i])))
                            = TextOf(es[i])
                    /\ i < n => c[OffsetOf(es, i) + Len(TextOf(es[i])) + 1] = " "

C3_Witness ==
    \E r \in Runs :
        /\ pc[r] = "summarize"
        /\ Len(transcriptions[r]) = 2
        /\ ~TranscribeEvents(r)[1].ok
        /\ TranscribeEvents(r)[2].ok

(***************************************************************************)
(* C4: when the summarization call fails, summarize_transcript returns the *)
(* non-empty text "Error generating summary: <cause>", the run goes on to  *)
(* recording, and the record it writes holds the full transcript and that  *)
(* text as its summary.                                                    *)
(***************************************************************************)
C4_SummaryFailureDegrades ==
    \A r \in Runs :
        Failed(r, "summarize") =>
            LET errText == <<"Error generating summary: ">> \o CauseOf(r, "summarize")
            IN  /\ pc[r] \in {"read", "append", "open", "dump", "done"}
                /\ raised[r] = ""
                /\ pc[r] # "done" => summary[r] = errText /\ summary[r] # <<>>
                /\ pc[r] \in {"open", "dump"} =>
                        DictGet(appended[r], K("full_text")) = PyStr(combined_text[r])
                /\ pc[r] = "done" /\ NoWriteInProgress =>
                    LET log == JsonLoad(logFile.content)
                        pos == PositionIn(order, r)
                    IN  /\ log.ok /\ log.val.t = "list" /\ Len(log.val.v) >= pos
                        /\ DictGet(log.val.v[pos], K("summary")) = PyStr(errText)
                        /\ DictGet(log.val.v[pos], K("full_text"))
                                = DictGet(appended[r], K("full_text"))

C4_Witness ==
    \E r \in Runs :
        /\ pc[r] = "done"
        /\ Failed(r, "summarize")
        /\ NoWriteInProgress
        /\ DictGet(appended[r], K("full_text")).v # <<>>

(***************************************************************************)
(* C5: starting from an absent log, after N runs made one after the other  *)
(* read_transcriptions returns N records, in the order of the runs, each   *)
(* with the file, full_text, chunks and summary that its run appended;     *)
(* earlier records stay as they were; a missing log reads as an empty      *)
(* list.                                                                   *)
(***************************************************************************)
C5_LogRoundTrip ==
    NoWriteInProgress =>
        LET got == ReadTranscriptions(logFile)
        IN  /\ got.t = "list"
            /\ Len(got.v) = Len(order)
            /\ \A k \in 1..Len(order) :
                /\ got.v[k] = appended[order[k]]
                /\ \A key \in RecordKeys :
                    DictGet(got.v[k], key) = DictGet(appended[order[k]], key)
                /\ k < Len(order) => order[k] < order[k + 1]
            /\ ~logFile.exists => got = PyList(<<>>)

C5_Witness ==
    /\ Len(order) = 2
    /\ NoWriteInProgress
    /\ Len(ReadTranscriptions(logFile).v) = 2
    /\ appended[order[1]] # appended[order[2]]
    /\ Failed(order[1], "transcribe")

(***************************************************************************)
(* C6: whenever the log holds anything that is not a JSON array of         *)
(* records, read_transcriptions returns an empty list without failing, as  *)
(* for an absent log, and the write of that run leaves a valid array with  *)
(* exactly one record.                                                     *)
(***************************************************************************)
C6_MalformedLogReadAsEmpty ==
    \A r \in Runs :
        (Did(r, "read") /\ logAtRead[r].exists /\ ~IsRecordArray(logAtRead[r])) =>
            /\ raised[r] = ""
            /\ pc[r] = "append" => transcriptions_data[r] = PyList(<<>>)
            /\ pc[r] = "done" =>
                LET log == JsonLoad(logAtExit[r].content)
                IN  log.ok /\ log.val = PyList(<<appended[r]>>)

\* The part of C6 the code keeps: content that is not JSON at all reads as empty.
NonJsonLogReadAsEmpty ==
    \A r \in Runs :
        (Did(r, "read") /\ logAtRead[r].exists /\ ~JsonLoad(logAtRead[r].content).ok) =>
            /\ raised[r] = ""
            /\ pc[r] = "append" => transcriptions_data[r] = PyList(<<>>)
            /\ pc[r] = "done" =>
                LET log == JsonLoad(logAtExit[r].content)
                IN  log.ok /\ log.val = PyList(<<appended[r]>>)

(***************************************************************************)
(* C7: the log is rewritten atomically: at every point of                  *)
(* write_transcriptions, and after a write that died part-way, the file    *)
(* holds the complete previous content or the complete new array.          *)
(***************************************************************************)
C7_RewriteIsAtomic ==
    \A r \in Runs :
        LET new == [exists |-> TRUE,
                    content |-> JsonDump(PyList(Append(ReadTranscriptions(logAtRead[r]).v,
                                                       appended[r])))]
        IN  /\ pc[r] = "dump" => logFile = logAtOpen[r] \/ logFile = new
            /\ pc[r] = "crashed" => logAtExit[r] = logAtOpen[r] \/ logAtExit[r] = new

(***************************************************************************)
(* C8: when decoding fails in split_audio the run ends there: no segment   *)
(* is transcribed, no summary is requested, and the log stays as it was    *)
(* when the run started.                                                   *)
(***************************************************************************)
C8_DecodeFailureAborts ==
    \A r \in Runs :
        Failed(r, "decode") =>
            /\ pc[r] = "aborted"
            /\ raised[r] = "CouldntDecodeError"
            /\ OpsOf(r) = <<"call", "decode">>
            /\ appended[r] = PyNone
            /\ \A k \in 1..Len(order) : order[k] # r
            /\ (\A q \in Runs : q > r => pc[q] = "idle") => logFile = logAtStart[r]

C8_Witness ==
    \E r \in Runs :
        /\ Failed(r, "decode")
        /\ logAtStart[r].exists
        /\ Len(ReadTranscriptions(logFile).v) = 1
        /\ \A q \in Runs : q > r => pc[q] = "idle"

(***************************************************************************)
(* C9: the steps of a run happen in the order call, decode, transcribe     *)
(* 0..n-1, aggregate, summarize, read, write, none skipped: every segment  *)
(* is sent once, in increasing index order, failed or not; the summary is  *)
(* requested once, after the last segment; the log is written once, after  *)
(* the summary.                                                            *)
(***************************************************************************)
C9_StepsInOrder ==
    \A r \in Runs :
        LET evs == TranscribeEvents(r)
            n == Len(evs)
            ops == OpsOf(r)
        IN  /\ IsPrefix(ops, ExpectedOps(n))
            /\ \A k \in 1..n : evs[k].idx = k - 1
            /\ pc[r] = "transcribe" => n < Len(chunks[r]) /\ ops[Len(ops)] \in {"decode", "transcribe"}
            /\ AfterLoop(r) => n = Len(chunks[r])
            /\ pc[r] = "aggregate" => ops = SubSeq(ExpectedOps(n), 1, n + 2)
            /\ pc[r] = "summarize" => ops = SubSeq(ExpectedOps(n), 1, n + 3)
            /\ pc[r] = "read" => ops = SubSeq(ExpectedOps(n), 1, n + 4)
            /\ pc[r] \in {"append", "open"} => ops = SubSeq(ExpectedOps(n), 1, n + 5)
            /\ pc[r] \in {"dump", "done"} => ops = ExpectedOps(n)
            /\ Cardinality({k \in 1..Len(order) : order[k] = r})
                    = IF pc[r] = "done" THEN 1 ELSE 0

C9_Witness ==
    \E r \in Runs :
        /\ pc[r] = "done"
        /\ Len(TranscribeEvents(r)) = 2
        /\ ~TranscribeEvents(r)[1].ok
        /\ OpsOf(r) = <<"call", "decode", "transcribe", "transcribe",
                        "aggregate", "summarize", "read", "write">>

(***************************************************************************)
(* C10: the log is read whole and written whole without a lock.  While no  *)
(* run is between its read and its write, the log is a list of records of  *)
(* completed runs ending with the record of the last writer; when no run   *)
(* ever read the log while another was between its read and its write,     *)
(* every completed run's record is there, in order.  When two runs         *)
(* interleave, both can complete without error and leave one record only.  *)
(***************************************************************************)
Quiescent == \A r \in Runs : ~InReadWriteWindow(r)

C10_SingleWriterKeepsAll ==
    Quiescent =>
        LET got == ReadTranscriptions(logFile)
        IN  /\ got.t = "list"
            /\ Len(got.v) <= Len(order)
            /\ \A k \in 1..Len(got.v) : \E j \in 1..Len(order) : got.v[k] = appended[order[j]]
            /\ order # <<>> =>
                    /\ Len(got.v) >= 1
                    /\ got.v[Len(got.v)] = appended[order[Len(order)]]
            /\ ~overlapped => got.v = RecordsInOrder

C10_LostUpdate ==
    /\ Quiescent
    /\ Len(order) = 2
    /\ \A r \in Runs : raised[r] = ""
    /\ pc[order[1]] = "done" /\ pc[order[2]] = "done"
    /\ overlapped
    /\ ReadTranscriptions(logFile).v = <<appended[order[2]]>>
====
